---- MODULE Spec2Model ----
(***************************************************************************)
(* pufferd: the process supervision layer (environments/standard.go,       *)
(* environments/tty.go) and the workload orchestrator                      *)
(* (programs/program.go).                                                  *)
(*                                                                         *)
(* One Environment is modelled.  Caller-issued lifecycle operations        *)
(* (ExecuteAsync, Kill, ExecuteInMainProcess, Install) are single steps:   *)
(* callers do not overlap conflicting lifecycle calls.  The goroutines the *)
(* code starts itself (the reaper of every spawn, the time.AfterFunc       *)
(* callback of every timed wait) and the operating system (process exit)   *)
(* interleave with them statement by statement.                            *)
(*                                                                         *)
(* Go runtime facts used (os, os/exec, sync of the Go 1.x line the         *)
(* repository was written for):                                            *)
(*  - kill(pid, 0) succeeds for a running process and for a zombie, fails  *)
(*    once the process was reaped; PIDs are not reused within a run;       *)
(*  - Process.Release sets Pid to -1; Signal and Wait on a released        *)
(*    Process return an error without touching the process;                *)
(*  - Cmd.Wait fails at once when the command was not started or when      *)
(*    Wait was already called;                                             *)
(*  - WaitGroup.Add panics on a negative counter, and wakes every          *)
(*    registered waiter when the counter reaches zero;                     *)
(*  - a panic in a goroutine without recover ends the daemon.              *)
(***************************************************************************)
EXTENDS Integers, Sequences, FiniteSets, TLC

\* ---------------------------------------------------------------- bounds
MaxSpawn == 3
MaxWaiters == 1
MaxTimers == 1
MaxSteps == 3
MaxEdit == 2
MaxStart == 2
MaxVersion == 2

Nil == 0
Cmds == 1..MaxSpawn
Waiters == 1..MaxWaiters
Variants == {"Direct", "PTY"}

VARIABLES
    variant,      \* which implementation: standard ("Direct") or tty ("PTY")
    mainProcess,  \* s.mainProcess: Nil or the *exec.Cmd of a spawn
    stdInWriter,  \* s.stdInWriter: Nil or the input stream of a spawn
    wait,         \* s.wait: the WaitGroup counter (the WaitGroup itself is
                  \* replaced by every spawn, so its identity is nspawn)
    nspawn,       \* how many exec.Cmd values ExecuteAsync has created
    cmds,         \* per exec.Cmd: OS process state and os.Process fields
    reaper,       \* per spawn: the goroutine started by ExecuteAsync
    waiter,       \* per waiting thread: position in WaitForMainProcessFor
    timer,        \* per waiting thread: its time.AfterFunc callback
    crashed,      \* "no", or the panic that ended the daemon
    Data,         \* p.Data: parameter name -> stored value
    InstallData,  \* p.InstallData: which definition's install section
    RunData,      \* p.RunData: which definition's runtime section
    reload,       \* the thread inside Reload: its position and argument
    rootDir,      \* whether s.RootDirectory exists on disk
    last          \* the call that returned in the step just taken and what
                  \* it returned; NoCall after any other step

envVars == <<variant, mainProcess, stdInWriter, wait, nspawn, cmds, reaper,
             waiter, timer, crashed>>
defVars == <<InstallData, RunData, reload>>
vars == <<variant, mainProcess, stdInWriter, wait, nspawn, cmds, reaper,
          waiter, timer, crashed, Data, InstallData, RunData, reload,
          rootDir, last>>

\* ------------------------------------------------------------ the state
NoCmd == [st |-> "unused", released |-> FALSE, finished |-> FALSE]
NoReaper == [pc |-> "none", target |-> Nil]
NoWaiter == [pc |-> "idle", spawn |-> Nil, woken |-> FALSE]
\* spawn: the process the arming call waits for, while the callback can act
NoTimer == [pc |-> "none", err |-> "nil", spawn |-> Nil]
NoCall == [op |-> "none", ret |-> "none", aux |-> <<>>]

Call(op, ret, aux) == [op |-> op, ret |-> ret, aux |-> aux]

\* a step in which a call of the environment returns / no call returns
Returns(op, ret, aux) ==
    last' = Call(op, ret, aux) /\ UNCHANGED <<Data, defVars, rootDir>>
NoReturn == last' = NoCall /\ UNCHANGED <<Data, defVars, rootDir>>

standard ==
    /\ variant \in Variants
    /\ mainProcess = Nil
    /\ stdInWriter = Nil
    /\ wait = 0
    /\ nspawn = 0
    /\ cmds = [c \in Cmds |-> NoCmd]
    /\ reaper = [c \in Cmds |-> NoReaper]
    /\ waiter = [w \in Waiters |-> NoWaiter]
    /\ timer = [w \in Waiters |-> NoTimer]
    /\ crashed = "no"

\* s.mainProcess.Process != nil: Start succeeded for this command
HasProcess(c) == cmds[c].st \in {"running", "zombie", "reaped"}

\* process.Signal(syscall.Signal(0)) on the Process found for the tracked Pid
Signal0(c) == /\ ~cmds[c].released
              /\ cmds[c].st \in {"running", "zombie"}

\* (a variant that trusts the handle instead of probing the process)
IsRunningCached ==
    /\ mainProcess # Nil
    /\ HasProcess(mainProcess)

IsRunning ==
    /\ mainProcess # Nil
    /\ HasProcess(mainProcess)
    /\ Signal0(mainProcess)

\* ------------------------------------------------- os.Process primitives
\* Process.Kill(): SIGKILL; an error when the Process was released or reaped
KillFails(c) == cmds[c].released \/ cmds[c].st = "reaped"

ProcessKill(c) ==
    IF ~KillFails(c) /\ cmds[c].st = "running"
    THEN [cmds EXCEPT ![c].st = "zombie"]
    ELSE cmds

\* Process.Release(): Pid = -1
ProcessRelease(cs, c) == [cs EXCEPT ![c].released = TRUE]

\* ------------------------------------------------------ the environment
\* ExecuteAsync(cmd, args); ok: whether the OS can start the command.
\* What it returns:
ExecuteAsyncRet(ok) ==
    IF IsRunning THEN "AlreadyRunning"
    ELSE IF ok THEN "nil" ELSE "SpawnFailure"

\* (a variant that spawns without looking at IsRunning)
ExecuteAsyncDoUnchecked(ok) ==
    /\ nspawn < MaxSpawn
    /\ nspawn' = nspawn + 1
    /\ mainProcess' = nspawn + 1
    /\ stdInWriter' = nspawn + 1
    /\ wait' = 1
    /\ cmds' = [cmds EXCEPT ![nspawn + 1] =
                  [NoCmd EXCEPT !.st = IF ok THEN "running" ELSE "nostart"]]
    /\ reaper' = [reaper EXCEPT ![nspawn + 1] =
                    IF variant = "PTY"
                    THEN [NoReaper EXCEPT !.pc = "copying",
                                          !.target = nspawn + 1]
                    ELSE [NoReaper EXCEPT !.pc = "new"]]
    /\ UNCHANGED <<variant, waiter, timer, crashed>>

\* what it does to the environment
ExecuteAsyncDo(ok) ==
    IF IsRunning
    THEN UNCHANGED envVars
    ELSE /\ nspawn < MaxSpawn
         /\ nspawn' = nspawn + 1
         /\ mainProcess' = nspawn + 1
         /\ stdInWriter' = nspawn + 1
         /\ wait' = 1
         /\ cmds' = [cmds EXCEPT ![nspawn + 1] =
                       [NoCmd EXCEPT !.st = IF ok THEN "running"
                                                  ELSE "nostart"]]
         /\ reaper' = [reaper EXCEPT ![nspawn + 1] =
                         IF variant = "PTY"
                         THEN [NoReaper EXCEPT !.pc = "copying",
                                               !.target = nspawn + 1]
                         ELSE [NoReaper EXCEPT !.pc = "new"]]
         /\ UNCHANGED <<variant, waiter, timer, crashed>>

ExecuteAsync(ok) ==
    /\ crashed = "no"
    /\ ExecuteAsyncDo(ok)
    /\ Returns("ExecuteAsync", ExecuteAsyncRet(ok), <<>>)

\* ExecuteInMainProcess(cmd); wok: whether the write to the stream succeeds
\* (a variant that writes without looking at IsRunning)
ExecuteInMainProcessRetUnguarded(wok) ==
    IF wok THEN "nil" ELSE "WriteError"

ExecuteInMainProcessRet(wok) ==
    IF ~IsRunning THEN "NotStarted"
    ELSE IF wok THEN "nil" ELSE "WriteError"

\* whether cmd + "\r" went to the input stream
Wrote(wok) == ExecuteInMainProcessRet(wok) = "nil"

ExecuteInMainProcess(wok) ==
    /\ crashed = "no"
    /\ Returns("ExecuteInMainProcess", ExecuteInMainProcessRet(wok),
               [wrote |-> Wrote(wok)])
    /\ UNCHANGED envVars

\* (a variant that trusts the handle instead of probing the process)
KillDoUnprobed ==
    IF mainProcess = Nil \/ ~HasProcess(mainProcess)
    THEN UNCHANGED envVars
    ELSE /\ cmds' = ProcessRelease(ProcessKill(mainProcess), mainProcess)
         /\ mainProcess' = Nil
         /\ UNCHANGED <<variant, stdInWriter, wait, nspawn, reaper, waiter,
                        timer, crashed>>

\* (a variant that signals the process and keeps the handle)
KillDoKeepHandle ==
    IF ~IsRunning
    THEN UNCHANGED envVars
    ELSE /\ cmds' = ProcessRelease(ProcessKill(mainProcess), mainProcess)
         /\ UNCHANGED <<variant, mainProcess, stdInWriter, wait, nspawn,
                        reaper, waiter, timer, crashed>>

\* Kill() called by a thread of the daemon: what it does to the environment.
\* Process.Kill() cannot fail here: the probe has just succeeded.
KillDo ==
    IF ~IsRunning
    THEN UNCHANGED envVars
    ELSE /\ cmds' = ProcessRelease(ProcessKill(mainProcess), mainProcess)
         /\ mainProcess' = Nil
         /\ UNCHANGED <<variant, stdInWriter, wait, nspawn, reaper, waiter,
                        timer, crashed>>

Kill ==
    /\ crashed = "no"
    /\ KillDo
    /\ Returns("Kill", "nil", <<>>)

\* the operating system: the command ends by itself, or is killed by
\* somebody outside the daemon (whether or not the daemon is still alive)
ProcExit(c) ==
    /\ cmds[c].st = "running"
    /\ cmds' = [cmds EXCEPT ![c].st = "zombie"]
    /\ UNCHANGED <<variant, mainProcess, stdInWriter, wait, nspawn, reaper,
                   waiter, timer, crashed>>
    /\ NoReturn

\* the operating system: the children of a daemon that has ended are
\* adopted and reaped by init
InitReap(c) ==
    /\ crashed # "no"
    /\ cmds[c].st = "zombie"
    /\ cmds' = [cmds EXCEPT ![c].st = "reaped"]
    /\ UNCHANGED <<variant, mainProcess, stdInWriter, wait, nspawn, reaper,
                   waiter, timer, crashed>>
    /\ NoReturn

\* ------------------------------------------ the reaper goroutine of a spawn
\* Direct: go func() { s.mainProcess.Wait(); ... } reads the field when the
\* goroutine runs: this step.  PTY: go func() { io.Copy(wrapper, tty); ... }
\* holds its own process and terminal from the spawn on, and first copies
\* until the terminal reaches end-of-stream (ExecuteAsync leaves it there).
ReaperStart(c) ==
    /\ crashed = "no"
    /\ reaper[c].pc = "new"
    /\ IF mainProcess = Nil
       THEN /\ crashed' = "nilderef"
            /\ reaper' = [reaper EXCEPT ![c].pc = "panic"]
            /\ UNCHANGED cmds
       ELSE IF ~HasProcess(mainProcess) \/ cmds[mainProcess].finished
       THEN \* Cmd.Wait: "not started" / "Wait was already called"
            /\ reaper' = [reaper EXCEPT ![c].pc = "returned",
                                        ![c].target = mainProcess]
            /\ UNCHANGED <<cmds, crashed>>
       ELSE /\ cmds' = [cmds EXCEPT ![mainProcess].finished = TRUE]
            /\ reaper' = [reaper EXCEPT
                 ![c].pc = IF cmds[mainProcess].released THEN "returned"
                                                         ELSE "waiting",
                 ![c].target = mainProcess]
            /\ UNCHANGED crashed
    /\ UNCHANGED <<variant, mainProcess, stdInWriter, wait, nspawn, waiter,
                   timer>>
    /\ NoReturn

\* Direct: the blocking wait4 returns once the process has ended, and reaps.
\* PTY: the copy ends with the process, then process.Wait() reaps unless the
\* command never started or its Process was released.
ReaperWaitReturn(c) ==
    /\ crashed = "no"
    /\ LET t == reaper[c].target IN
       \/ /\ reaper[c].pc = "waiting"
          /\ cmds[t].st = "zombie"
          /\ cmds' = [cmds EXCEPT ![t].st = "reaped"]
       \/ /\ reaper[c].pc = "copying"
          /\ cmds[t].st \in {"nostart", "zombie"}
          /\ cmds' = IF cmds[t].st = "nostart" THEN cmds
                     ELSE IF cmds[t].released THEN cmds
                     ELSE [cmds EXCEPT ![t].st = "reaped"]
    /\ reaper' = [reaper EXCEPT ![c].pc = "returned"]
    /\ UNCHANGED <<variant, mainProcess, stdInWriter, wait, nspawn, waiter,
                   timer, crashed>>
    /\ NoReturn

\* threads blocked in s.wait.Wait()
Blocked == {w \in Waiters : waiter[w].pc = "blocked"}
\* ... registered with the WaitGroup s.wait currently holds
Registered == {w \in Blocked : waiter[w].spawn = nspawn}

\* what WaitGroup.Add(-1) wakes when the counter reaches zero: one semaphore
\* release per registered waiter.  Threads still parked on a WaitGroup that
\* ExecuteAsync has overwritten sit in the same queue and may take a release.
Wakeable == {W \in SUBSET Blocked : Cardinality(W) = Cardinality(Registered)}

Wake(W) == [w \in Waiters |->
              IF w \in W THEN [waiter[w] EXCEPT !.pc = "released",
                                                !.woken = TRUE]
              ELSE waiter[w]]

\* s.wait.Done()
ReaperDone(c) ==
    /\ crashed = "no"
    /\ reaper[c].pc = "returned"
    /\ wait' = wait - 1
    /\ IF wait - 1 < 0
       THEN /\ crashed' = "negwg"
            /\ reaper' = [reaper EXCEPT ![c].pc = "panic"]
            /\ UNCHANGED waiter
       ELSE /\ reaper' = [reaper EXCEPT ![c] = [pc |-> "done", target |-> Nil]]
            /\ \E W \in Wakeable : waiter' = Wake(W)
            /\ UNCHANGED crashed
    /\ UNCHANGED <<variant, mainProcess, stdInWriter, nspawn, cmds, timer>>
    /\ NoReturn

\* --------------------------------------------------- WaitForMainProcessFor
\* a waiter slot is one call of WaitForMainProcessFor that reached
\* s.wait.Wait(); calls are given the slots in order
FreeSlot(w) == /\ waiter[w].pc = "idle"
               /\ \A v \in Waiters : v < w => waiter[v].pc # "idle"

Timers == {w \in Waiters : timer[w].pc # "none"}

\* WaitForMainProcessFor(timeout) called while nothing is running
WaitForMainProcessForIdle ==
    /\ crashed = "no"
    /\ ~IsRunning
    /\ Returns("WaitForMainProcessFor", "nil", <<>>)
    /\ UNCHANGED envVars

\* WaitForMainProcessFor(timeout) up to s.wait.Wait(); timed: timeout > 0
WaitForMainProcessFor(w, timed) ==
    /\ crashed = "no"
    /\ FreeSlot(w)
    /\ IsRunning
    /\ timed => Cardinality(Timers) < MaxTimers
    /\ waiter' = [waiter EXCEPT ![w] =
                    [pc |-> IF wait = 0 THEN "released" ELSE "blocked",
                     spawn |-> nspawn, woken |-> FALSE]]
    /\ timer' = [timer EXCEPT ![w].pc = IF timed THEN "armed" ELSE "none",
                               ![w].spawn = IF timed THEN nspawn ELSE Nil]
    /\ UNCHANGED <<variant, mainProcess, stdInWriter, wait, nspawn, cmds,
                   reaper, crashed>>
    /\ NoReturn

\* s.wait.Wait() returns; timer.Stop(); return err
WaitReturn(w) ==
    /\ crashed = "no"
    /\ waiter[w].pc = "released"
    /\ waiter' = [waiter EXCEPT ![w] = [NoWaiter EXCEPT !.pc = "returned"]]
    /\ IF waiter[w].woken /\ wait # 0
       THEN \* "WaitGroup is reused before previous Wait has returned"
            /\ Returns("WaitForMainProcessFor", "panic", <<>>)
            /\ UNCHANGED timer
       ELSE /\ Returns("WaitForMainProcessFor",
                            IF timer[w].pc = "done" THEN timer[w].err
                                                    ELSE "nil", <<>>)
            /\ timer' = [timer EXCEPT ![w].pc =
                           IF @ = "armed" THEN "stopped" ELSE @,
                                      ![w].err = "nil",
                                      ![w].spawn =
                           IF timer[w].pc = "armed" THEN Nil ELSE @]
    /\ UNCHANGED <<variant, mainProcess, stdInWriter, wait, nspawn, cmds,
                   reaper, crashed>>

\* ------------------------- the time.AfterFunc callback: err = s.Kill()
\* the callback assigns err; "late" when the waiting call has returned
Assigned(w) == IF waiter[w].pc = "returned" THEN "late" ELSE "done"

\* the timer fires; Kill: if !s.IsRunning() { return }
TimerFire(w) ==
    /\ crashed = "no"
    /\ timer[w].pc = "armed"
    /\ timer' = [timer EXCEPT ![w].pc = IF IsRunning THEN "kill"
                                                     ELSE Assigned(w),
                               ![w].spawn = IF IsRunning THEN @ ELSE Nil]
    /\ UNCHANGED <<variant, mainProcess, stdInWriter, wait, nspawn, cmds,
                   reaper, waiter, crashed>>
    /\ NoReturn

\* Kill: err = s.mainProcess.Process.Kill(); s.mainProcess.Process.Release()
TimerKillSignal(w) ==
    /\ crashed = "no"
    /\ timer[w].pc = "kill"
    /\ IF mainProcess = Nil \/ ~HasProcess(mainProcess)
       THEN /\ crashed' = "nilderef"
            /\ timer' = [timer EXCEPT ![w].pc = "panic", ![w].spawn = Nil]
            /\ UNCHANGED cmds
       ELSE /\ cmds' = ProcessRelease(ProcessKill(mainProcess), mainProcess)
            /\ timer' = [timer EXCEPT
                 ![w].pc = "clear",
                 ![w].err = IF KillFails(mainProcess) THEN "KillError"
                                                      ELSE "nil"]
            /\ UNCHANGED crashed
    /\ UNCHANGED <<variant, mainProcess, stdInWriter, wait, nspawn, reaper,
                   waiter>>
    /\ NoReturn

\* Kill: s.mainProcess = nil; return; the callback stores the result in err
TimerKillClear(w) ==
    /\ crashed = "no"
    /\ timer[w].pc = "clear"
    /\ mainProcess' = Nil
    /\ timer' = [timer EXCEPT ![w].pc = Assigned(w),
                               ![w].err = IF Assigned(w) = "late" THEN "nil"
                                                                  ELSE @,
                               ![w].spawn = Nil]
    /\ UNCHANGED <<variant, stdInWriter, wait, nspawn, cmds, reaper, waiter,
                   crashed>>
    /\ NoReturn

\* ------------------------------------------------ Program: p.Data values
\* A value stored in Data is an interface{}: nil, a string, or a descriptor
\* map with a "value" entry.  Absent marks a key the map does not hold.
Absent == [kind |-> "absent", value |-> ""]
NilV == [kind |-> "nil", value |-> ""]
Str(x) == [kind |-> "string", value |-> x]
Desc(x) == [kind |-> "map", value |-> x]

Keys == {"ip", "port", "motd"}
\* what a persisted definition holds for a key
Persisted == {Absent, Desc("7")}
\* what an Edit request may carry for a key
Overrides == {NilV, Str(""), Str("8"), Desc("9")}

\* v == nil || v == ""
IsEmpty(v) == v = NilV \/ v = Str("")

\* one iteration of the loop of Edit: delete(p.Data, k) for an empty value,
\* then p.Data[k] = v
EditKey(d, k, v) ==
    LET d1 == IF IsEmpty(v) THEN [d EXCEPT ![k] = Absent] ELSE d
    IN [d1 EXCEPT ![k] = v]

\* for k, v := range data { ... }
RECURSIVE EditLoop(_, _)
EditLoop(d, data) ==
    IF DOMAIN data = {} THEN d
    ELSE LET k == CHOOSE x \in DOMAIN data : TRUE
         IN EditLoop(EditKey(d, k, data[k]),
                     [x \in DOMAIN data \ {k} |-> data[x]])

\* Edit(data); saved: whether Save succeeds
Edit(data, saved) ==
    /\ Data' = EditLoop(Data, data)
    /\ last' = Call("Edit", IF saved THEN "nil" ELSE "SaveError",
                    [data |-> data, old |-> Data])
    /\ UNCHANGED <<envVars, defVars, rootDir>>

\* data[k]: nil for a key the map does not hold
Lookup(d, k) == IF d[k] = Absent THEN NilV ELSE d[k]

\* GetNetwork(): "panic" when a type assertion fails
GetNetworkRet(d) ==
    LET ipData == Lookup(d, "ip")
        portData == Lookup(d, "port")
    IN IF ipData # NilV /\ ipData.kind # "map" THEN "panic"
       ELSE IF portData # NilV /\ portData.kind # "map" THEN "panic"
       ELSE (IF ipData # NilV THEN ipData.value ELSE "0.0.0.0")
            \o ":" \o
            (IF portData # NilV THEN portData.value ELSE "0")

GetNetwork ==
    /\ last' = Call("GetNetwork", GetNetworkRet(Data), <<>>)
    /\ UNCHANGED <<Data, envVars, defVars, rootDir>>

\* ------------------------------------- Program: definitions and Reload
\* A definition is (Data, Install spec, Runtime spec); the definitions that
\* exist are numbered, definition 0 is the one the Program was loaded from.
Versions == 0..MaxVersion

DataOf(v) == [k \in Keys |->
                IF k = "motd" THEN Desc(ToString(7 + v)) ELSE Absent]

NoReload == [pc |-> "none", other |-> 0]

\* Reload(data): replacement := data.(*programData)
ReloadBegin(other) ==
    /\ reload.pc = "none"
    /\ reload' = [pc |-> "data", other |-> other]
    /\ last' = NoCall
    /\ UNCHANGED <<Data, InstallData, RunData, envVars, rootDir>>

\* p.Data = replacement.Data
ReloadData ==
    /\ reload.pc = "data"
    /\ Data' = DataOf(reload.other)
    /\ reload' = [reload EXCEPT !.pc = "install"]
    /\ last' = NoCall
    /\ UNCHANGED <<InstallData, RunData, envVars, rootDir>>

\* p.InstallData = replacement.InstallData
ReloadInstall ==
    /\ reload.pc = "install"
    /\ InstallData' = reload.other
    /\ reload' = [reload EXCEPT !.pc = "run"]
    /\ last' = NoCall
    /\ UNCHANGED <<Data, RunData, envVars, rootDir>>

\* p.RunData = replacement.RunData; return
ReloadRun ==
    /\ reload.pc = "run"
    /\ RunData' = reload.other
    /\ reload' = NoReload
    /\ last' = Call("Reload", "none", <<>>)
    /\ UNCHANGED <<Data, InstallData, envVars, rootDir>>

\* Save(file) on another thread: what it reads to write the file;
\* saved: whether marshalling and writing succeed
Save(saved) ==
    /\ Returns("Save", IF saved THEN "nil" ELSE "SaveError",
               [data |-> Data, install |-> InstallData, run |-> RunData])
    /\ UNCHANGED envVars

\* GetData() on another thread
GetData ==
    /\ Returns("GetData", "none", [data |-> Data])
    /\ UNCHANGED envVars

\* ---------------------------------------------------- the install pipeline
\* install.GenerateInstallProcess: the pipeline over the operations of the
\* install section; ops[i] tells whether operation i succeeds when it runs,
\* ran lists the operations that were run
GenerateInstallProcess(ops) == [ops |-> ops, pos |-> 0, ran |-> <<>>]

HasNext(process) == process.pos < Len(process.ops)

StepError(i) == "E" \o ToString(i)

\* RunNext: runs the next operation and returns its error
RunNext(process) ==
    LET i == process.pos + 1
    IN [err |-> IF process.ops[i] THEN "nil" ELSE StepError(i),
        process |-> [process EXCEPT !.pos = i, !.ran = Append(@, i)]]

\* ------------------------------------------------------------- Program
\* Start(): the console line, then ExecuteAsync
StartConsole(ok) ==
    IF ExecuteAsyncRet(ok) # "nil"
    THEN <<"Starting server", "Failed to start server">>
    ELSE <<"Starting server">>

Start(ok) ==
    /\ crashed = "no"
    /\ IsRunning \/ nspawn < MaxStart
    /\ ExecuteAsyncDo(ok)
    /\ Returns("Start", ExecuteAsyncRet(ok), StartConsole(ok))

\* Stop(): the stop command goes to the input stream of the process
StopConsole(wok) ==
    IF ExecuteInMainProcessRet(wok) # "nil" THEN <<"Failed to stop server">>
    ELSE <<"Server stopped">>

Stop(wok) ==
    /\ crashed = "no"
    /\ Returns("Stop", ExecuteInMainProcessRet(wok),
               [console |-> StopConsole(wok), wrote |-> Wrote(wok)])
    /\ UNCHANGED envVars

\* Program.Kill(): Environment.Kill, then the console line
ProgramKill ==
    /\ crashed = "no"
    /\ KillDo
    /\ Returns("Kill", "nil", <<"Server killed">>)

\* (a variant of the loop that goes on after a failing operation)
RECURSIVE InstallLoopNoBreak(_, _)
InstallLoopNoBreak(process, acc) ==
    IF HasNext(process)
    THEN LET r == RunNext(process)
         IN InstallLoopNoBreak(r.process,
              [err |-> r.err, ran |-> r.process.ran,
               console |-> IF r.err # "nil"
                           THEN Append(acc.console, "Error installing server")
                           ELSE acc.console])
    ELSE acc

\* the loop of Install: for process.HasNext() { err = process.RunNext() ... }
RECURSIVE InstallLoop(_, _)
InstallLoop(process, acc) ==
    IF HasNext(process)
    THEN LET r == RunNext(process)
         IN IF r.err # "nil"
            THEN [err |-> r.err, ran |-> r.process.ran,
                  console |-> Append(acc.console, "Error installing server")]
            ELSE InstallLoop(r.process,
                             [acc EXCEPT !.err = r.err, !.ran = r.process.ran])
    ELSE acc

\* (a variant that goes on to the pipeline although Stop failed)
InstallResultIgnoreStop(ops, wok) ==
    LET stopCon == IF IsRunning THEN StopConsole(wok) ELSE <<>>
        r == InstallLoop(GenerateInstallProcess(ops),
                         [err |-> "nil", ran |-> <<>>,
                          console |-> stopCon \o <<"Installing server">>])
    IN [r EXCEPT !.console = Append(@, "Server installed")]

\* Install(); ops: the operations of the install section; wok: whether the
\* write of the stop command succeeds.  The result: err, the operations run
\* and the console lines written.
InstallResult(ops, wok) ==
    LET stopErr == IF IsRunning THEN ExecuteInMainProcessRet(wok) ELSE "nil"
        stopCon == IF IsRunning THEN StopConsole(wok) ELSE <<>>
    IN IF stopErr # "nil"
       THEN [err |-> stopErr, ran |-> <<>>,
             console |-> stopCon \o <<"Error stopping server">>]
       ELSE LET r == InstallLoop(GenerateInstallProcess(ops),
                       [err |-> "nil", ran |-> <<>>,
                        console |-> stopCon \o <<"Installing server">>])
            IN [r EXCEPT !.console = Append(@, "Server installed")]

Pipelines == UNION {[1..n -> BOOLEAN] : n \in 0..MaxSteps}

\* whether Install got past Stop: it wrote "Installing server"
PipelineStarted(console) ==
    \E i \in 1..Len(console) : console[i] = "Installing server"

\* os.MkdirAll(p.Environment.GetRootDirectory(), 0755), once past Stop
InstallMkdir(r) == PipelineStarted(r.console) \/ rootDir

Install(ops, wok) ==
    /\ crashed = "no"
    /\ \E r \in {InstallResult(ops, wok)} :
          /\ last' = Call("Install", r.err,
                          [ops |-> ops, ran |-> r.ran, console |-> r.console])
          /\ rootDir' = InstallMkdir(r)
    /\ UNCHANGED <<envVars, Data, defVars>>

\* Update(): err = p.Install()
Update(ops, wok) ==
    /\ crashed = "no"
    /\ \E r \in {InstallResult(ops, wok)} :
          /\ last' = Call("Update", r.err,
                          [ops |-> ops, ran |-> r.ran, console |-> r.console])
          /\ rootDir' = InstallMkdir(r)
    /\ UNCHANGED <<envVars, Data, defVars>>

\* the literal-file-write operation, WriteFile.Run(); wrote: whether
\* ioutil.WriteFile succeeds.  Its error is dropped: return nil
WriteFileRun(wrote) == "nil"

\* one WriteFile operation run against the environment; the write cannot
\* succeed without the root directory
RunWriteFile(wrote) ==
    /\ crashed = "no"
    /\ Returns("WriteFile.Run", WriteFileRun(wrote /\ rootDir),
               [written |-> wrote /\ rootDir])
    /\ UNCHANGED envVars

\* an install section made of WriteFile operations; writes[i]: whether the
\* write of operation i succeeds.  What each operation reports to the pipeline:
WriteFileOps(writes) ==
    [i \in 1..Len(writes) |-> WriteFileRun(writes[i]) = "nil"]

\* Install() of such a section
InstallFiles(writes, wok) ==
    /\ crashed = "no"
    /\ \E r \in {InstallResult(WriteFileOps(writes), wok)} :
          /\ last' = Call("InstallFiles", r.err,
                          [writes |-> writes, ran |-> r.ran,
                           console |-> r.console])
          /\ rootDir' = InstallMkdir(r)
    /\ UNCHANGED <<envVars, Data, defVars>>

\* (a variant that kills the process before it deletes)
DestroyDoKilling == KillDo

\* Destroy(): what it does to the process side of the environment
DestroyDo == UNCHANGED envVars

\* Destroy(): err = p.Environment.Delete(), which is
\* os.RemoveAll(s.RootDirectory); rok: whether the removal succeeds
Destroy(rok) ==
    /\ crashed = "no"
    /\ DestroyDo
    /\ rootDir' = (rootDir /\ ~rok)
    /\ last' = Call("Destroy", IF rok THEN "nil" ELSE "RemoveError", <<>>)
    /\ UNCHANGED <<Data, defVars>>

\* ------------------------------------------------------- specification
DefaultData == DataOf(0)

\* a Program as loaded and created, nothing reloading
programData ==
    /\ rootDir = TRUE
    /\ InstallData = 0
    /\ RunData = 0
    /\ reload = NoReload

\* the Environment and the threads that use it
Init == standard /\ programData /\ Data = DefaultData /\ last = NoCall

Next ==
    \/ \E ok \in BOOLEAN : ExecuteAsync(ok)
    \/ \E wok \in BOOLEAN : ExecuteInMainProcess(wok)
    \/ Kill
    \/ \E c \in Cmds : ProcExit(c)
    \/ \E c \in Cmds : InitReap(c)
    \/ \E c \in Cmds : ReaperStart(c)
    \/ \E c \in Cmds : ReaperWaitReturn(c)
    \/ \E c \in Cmds : ReaperDone(c)
    \/ WaitForMainProcessForIdle
    \/ \E w \in Waiters, timed \in BOOLEAN : WaitForMainProcessFor(w, timed)
    \/ \E w \in Waiters : WaitReturn(w)
    \/ \E w \in Waiters : TimerFire(w)
    \/ \E w \in Waiters : TimerKillSignal(w)
    \/ \E w \in Waiters : TimerKillClear(w)

Spec == Init /\ [][Next]_vars

\* the Go scheduler runs every goroutine that can run, the command of every
\* spawn ends by itself, init reaps what it adopts
Fairness ==
    \A c \in Cmds : /\ WF_vars(ProcExit(c))
                    /\ WF_vars(InitReap(c))
                    /\ WF_vars(ReaperStart(c))
                    /\ WF_vars(ReaperWaitReturn(c))
                    /\ WF_vars(ReaperDone(c))

LiveSpec == Spec /\ Fairness

\* the Go scheduler runs every goroutine and thread that can run: reapers,
\* threads released from s.wait.Wait(), timer callbacks that have started.
\* A process need not ever exit by itself.
WaitFairness ==
    /\ \A c \in Cmds : /\ WF_vars(InitReap(c))
                       /\ WF_vars(ReaperStart(c))
                       /\ WF_vars(ReaperWaitReturn(c))
                       /\ WF_vars(ReaperDone(c))
    /\ \A w \in Waiters : /\ WF_vars(WaitReturn(w))
                          /\ WF_vars(TimerKillSignal(w))
                          /\ WF_vars(TimerKillClear(w))

WaitLiveSpec == Spec /\ WaitFairness

\* callers that do not overlap their calls: no call is made while a
\* WaitForMainProcessFor call has not returned (Execute is ExecuteAsync
\* followed by WaitForMainProcess)
Waiting == {w \in Waiters : waiter[w].pc \in {"blocked", "released"}}

SerialNext ==
    \/ /\ Waiting = {}
       /\ \/ \E ok \in BOOLEAN : ExecuteAsync(ok)
          \/ \E wok \in BOOLEAN : ExecuteInMainProcess(wok)
          \/ Kill
          \/ WaitForMainProcessForIdle
          \/ \E w \in Waiters, timed \in BOOLEAN :
                WaitForMainProcessFor(w, timed)
    \/ \E c \in Cmds : ProcExit(c)
    \/ \E c \in Cmds : InitReap(c)
    \/ \E c \in Cmds : ReaperStart(c)
    \/ \E c \in Cmds : ReaperWaitReturn(c)
    \/ \E c \in Cmds : ReaperDone(c)
    \/ \E w \in Waiters : WaitReturn(w)
    \/ \E w \in Waiters : TimerFire(w)
    \/ \E w \in Waiters : TimerKillSignal(w)
    \/ \E w \in Waiters : TimerKillClear(w)

SerialSpec == Init /\ [][SerialNext]_vars

\* the Program driving its Environment (program.go calls no wait);
\* Program.Execute is ExecuteInMainProcess
ProgramNext ==
    \/ \E ok \in BOOLEAN : Start(ok)
    \/ \E wok \in BOOLEAN : Stop(wok)
    \/ \E wok \in BOOLEAN : ExecuteInMainProcess(wok)
    \/ ProgramKill
    \/ \E ops \in Pipelines, wok \in BOOLEAN : Install(ops, wok)
    \/ \E ops \in Pipelines, wok \in BOOLEAN : Update(ops, wok)
    \/ \E rok \in BOOLEAN : Destroy(rok)
    \/ \E wrote \in BOOLEAN : RunWriteFile(wrote)
    \/ \E writes \in Pipelines, wok \in BOOLEAN : InstallFiles(writes, wok)
    \/ \E c \in Cmds : ProcExit(c)
    \/ \E c \in Cmds : InitReap(c)
    \/ \E c \in Cmds : ReaperStart(c)
    \/ \E c \in Cmds : ReaperWaitReturn(c)
    \/ \E c \in Cmds : ReaperDone(c)

ProgramSpec == Init /\ [][ProgramNext]_vars

\* the parameters of a Program: Edit and GetNetwork on every persisted Data
DataInit ==
    /\ standard
    /\ variant = "Direct"
    /\ programData
    /\ Data \in [Keys -> Persisted]
    /\ last = NoCall

DataNext ==
    \/ \E K \in SUBSET Keys, saved \in BOOLEAN :
          /\ Cardinality(K) <= MaxEdit
          /\ \E data \in [K -> Overrides] : Edit(data, saved)
    \/ GetNetwork

DataSpec == DataInit /\ [][DataNext]_vars

\* Reload on one thread, readers of the definition on others
ReloadNext ==
    \/ \E other \in Versions : ReloadBegin(other)
    \/ ReloadData
    \/ ReloadInstall
    \/ ReloadRun
    \/ \E saved \in BOOLEAN : Save(saved)
    \/ GetData
    \/ GetNetwork

ReloadInit == Init /\ variant = "Direct"

ReloadSpec == ReloadInit /\ [][ReloadNext]_vars

\* ===================================================================
\* Properties
\* ===================================================================

\* C1: in either variant, an ExecuteAsync made while IsRunning() is true
\* returns AlreadyRunning, leaves the process handle (and so the tracked
\* PID) as it was, and spawns nothing: no new command, no new reaper, the
\* completion signal untouched.
C1_ExecuteAsyncRejectsWhenRunning ==
    [][(IsRunning /\ last'.op = "ExecuteAsync")
        => /\ last'.ret = "AlreadyRunning"
           /\ mainProcess' = mainProcess
           /\ nspawn' = nspawn
           /\ cmds' = cmds
           /\ reaper' = reaper
           /\ wait' = wait]_vars

\* a rejected ExecuteAsync, the earlier process still tracked and alive
C1_Witness ==
    /\ last.op = "ExecuteAsync"
    /\ last.ret = "AlreadyRunning"
    /\ mainProcess # Nil
    /\ cmds[mainProcess].st = "running"

\* C10: a Kill on an Environment that is not running (never started, already
\* exited, already killed) returns no error, signals no process, and leaves
\* the process handle, the input stream and the completion signal as they
\* were.  The same holds for the Kill a timer callback makes.
C10_KillWhenNotRunningIsNoOp ==
    [][/\ (~IsRunning /\ last'.op = "Kill")
            => /\ last'.ret = "nil"
               /\ UNCHANGED <<mainProcess, stdInWriter, wait, cmds>>
       /\ \A w \in Waiters :
            (~IsRunning /\ timer[w].pc = "armed" /\ timer'[w].pc # "armed")
            => /\ timer'[w].pc \in {"done", "late", "stopped"}
               /\ UNCHANGED <<mainProcess, stdInWriter, wait, cmds>>]_vars

\* a Kill that returned with the handle of an exited, reaped process still set
C10_Witness ==
    /\ last.op = "Kill"
    /\ last.ret = "nil"
    /\ mainProcess # Nil
    /\ cmds[mainProcess].st = "reaped"
    /\ ~cmds[mainProcess].released

\* C2: Install runs the operations of the pipeline in order and stops at the
\* first one that fails: when operation k is the first to fail, exactly the
\* operations 1..k were run, each once, and Install returns the error of
\* operation k; when none fails all were run and Install returns nil.  (An
\* Install that gives up because the running server could not be stopped
\* runs no operation at all.)
FirstFailing(ops) ==
    IF \E i \in 1..Len(ops) : ~ops[i]
    THEN CHOOSE i \in 1..Len(ops) : ~ops[i] /\ \A j \in 1..(i - 1) : ops[j]
    ELSE 0

Upto(k) == [i \in 1..k |-> i]

C2_InstallFailFast ==
    last.op = "Install" =>
        LET k == FirstFailing(last.aux.ops)
        IN IF PipelineStarted(last.aux.console)
           THEN IF k > 0
                THEN last.aux.ran = Upto(k) /\ last.ret = StepError(k)
                ELSE last.aux.ran = Upto(Len(last.aux.ops)) /\ last.ret = "nil"
           ELSE last.aux.ran = <<>> /\ last.ret \in {"NotStarted", "WriteError"}

\* the pipeline [A succeeds, B fails, C succeeds]: A and B ran, B's error
C2_Witness ==
    /\ last.op = "Install"
    /\ last.aux.ops = <<TRUE, FALSE, TRUE>>
    /\ last.aux.ran = <<1, 2>>
    /\ last.ret = StepError(2)

\* C3: after Edit(overrides), a key whose override is empty (nil or "") is
\* not in Data, a key with any other override maps to that override, and a
\* key the overrides do not mention is as before.
C3_EditMergesOverrides ==
    [][(last'.op = "Edit" /\ last'.ret = "nil") =>
        \A k \in Keys :
            IF k \in DOMAIN last'.aux.data
            THEN IF IsEmpty(last'.aux.data[k])
                 THEN Data'[k] = Absent
                 ELSE Data'[k] = last'.aux.data[k]
            ELSE Data'[k] = Data[k]]_vars

\* C4: from Data that holds "port" and no "ip", Edit({"port": ""}) followed by
\* GetNetwork() completes and gives "0.0.0.0:0".
C4_EditThenGetNetworkDefaults ==
    [][(/\ last.op = "Edit"
        /\ last.ret = "nil"
        /\ DOMAIN last.aux.data = {"port"}
        /\ last.aux.data["port"] = Str("")
        /\ last.aux.old["port"] # Absent
        /\ last.aux.old["ip"] = Absent
        /\ last'.op = "GetNetwork")
       => last'.ret = "0.0.0.0:0"]_vars

\* C5: a timed wait on a running process.  When its timer has fired and
\* Kill was invoked, the process it waited for is dead when the call
\* returns and IsRunning() is false right after the return.  When the
\* completion signal arrives first (it has woken the waiting thread), the
\* timer is cancelled: it does not fire any more and Kill is not invoked.
C5_WaitReturnsAfterKill(w) ==
    (/\ waiter[w].pc = "released"
     /\ waiter'[w].pc = "returned"
     /\ timer[w].pc \in {"kill", "clear", "done"})
    => /\ cmds'[waiter[w].spawn].st # "running"
       /\ nspawn' = waiter[w].spawn => ~IsRunning'

C5_CompletionCancelsTimer(w) ==
    (timer[w].pc = "armed" /\ timer'[w].pc \notin {"armed", "stopped"})
    => ~(waiter[w].pc = "released" /\ waiter[w].woken)

C5_TimeoutKillsOrCompletionCancels ==
    [][\A w \in Waiters : /\ C5_WaitReturnsAfterKill(w)
                          /\ C5_CompletionCancelsTimer(w)]_vars

\* C6: IsRunning reflects the process, not the handle: while the handle
\* still names a process that has ended (by itself or killed from outside)
\* and was reaped, with Kill never called, IsRunning() is false; and with a
\* fair reaper, after every successful ExecuteAsync of a command that ends
\* by itself IsRunning() is eventually false.
C6_IsRunningProbesLiveness ==
    /\ []((mainProcess # Nil /\ cmds[mainProcess].st = "reaped")
            => ~IsRunning)
    /\ ((last.op = "ExecuteAsync" /\ last.ret = "nil") ~> ~IsRunning)

\* the handle of an ended and reaped process, never killed by the daemon
C6_Witness ==
    /\ mainProcess # Nil
    /\ cmds[mainProcess].st = "reaped"
    /\ ~cmds[mainProcess].released
    /\ ~IsRunning

\* C7: the reaper of every spawn signals completion exactly once, on the
\* completion counter of its own spawn, taking it from 1 to 0, however the
\* process ends; no reaper ends without signalling.
C7_OneSignalPerSpawn ==
    [][\A c \in Cmds :
          /\ reaper'[c].pc # "panic"
          /\ (reaper[c].pc = "returned" /\ reaper'[c].pc = "done")
               => (nspawn = c /\ wait = 1 /\ wait' = 0)]_vars

C9_NoWriteAfterReturn ==
    \A w \in Waiters : timer[w].pc # "late"

\* C11: a Kill on a running Environment signals the process (it is no longer
\* running) and clears the handle: right after Kill returns the handle is
\* nil and IsRunning() is false.  An ExecuteAsync that follows a Kill is
\* never rejected with AlreadyRunning.
C11_KillClearsHandle ==
    [][/\ (IsRunning /\ last'.op = "Kill")
            => /\ last'.ret = "nil"
               /\ cmds'[mainProcess].st # "running"
               /\ mainProcess' = Nil
               /\ ~IsRunning'
       /\ (last.op = "Kill" /\ last'.op = "ExecuteAsync")
            => last'.ret # "AlreadyRunning"]_vars

\* a Kill that returned after it killed the running process of spawn 1
C11_Witness ==
    /\ last.op = "Kill"
    /\ mainProcess = Nil
    /\ cmds[1].st = "zombie"
    /\ cmds[1].released
    /\ \A w \in Waiters : timer[w].pc = "none"

\* C12: on an Environment on which no process was ever started,
\* ExecuteInMainProcess fails with NotStarted and writes nothing to any
\* stream, and so does Program.Stop: it returns NotStarted, not success.
C12_NotStartedWhenNeverStarted ==
    [][(nspawn = 0 /\ last'.op \in {"ExecuteInMainProcess", "Stop"})
        => /\ last'.ret = "NotStarted"
           /\ ~last'.aux.wrote]_vars

\* a Stop on a Program that was never started returned NotStarted
C12_Witness ==
    /\ nspawn = 0
    /\ last.op = "Stop"
    /\ last.ret = "NotStarted"
    /\ last.aux.console = <<"Failed to stop server">>

\* C13: Install and Update on a running Program attempt Stop before anything
\* else (the first console line of the call is the line Stop writes); when
\* that Stop fails they return its error, construct no pipeline and run no
\* operation; on a Program that is not running Stop is not attempted (no
\* line of Stop is written).
StopLines == {"Server stopped", "Failed to stop server"}

C13_InstallStopsFirst ==
    [][last'.op \in {"Install", "Update"} =>
        LET console == last'.aux.console
        IN IF IsRunning
           THEN /\ console[1] \in StopLines
                /\ console[1] = "Failed to stop server"
                     => /\ last'.ret = "WriteError"
                        /\ last'.aux.ran = <<>>
                        /\ ~PipelineStarted(console)
           ELSE \A i \in 1..Len(console) : console[i] \notin StopLines]_vars

\* an Install with operations to run that gave up because Stop failed
C13_Witness ==
    /\ last.op = "Install"
    /\ last.ret = "WriteError"
    /\ Len(last.aux.ops) > 0
    /\ last.aux.ran = <<>>
    /\ last.aux.console = <<"Failed to stop server", "Error stopping server">>

\* C14: an Environment owns at most one live process: with callers that do
\* not overlap their ExecuteAsync, Execute, Kill and WaitForMainProcess(For)
\* calls, and processes that may exit at any time, at most one of the
\* processes the Environment spawned has not yet exited.
Live == {c \in Cmds : cmds[c].st = "running"}

C14_AtMostOneLiveProcess == Cardinality(Live) <= 1

\* C15: a failed Start (the same for the ExecuteAsync it makes) leaves the
\* Program as it was and can be retried safely.  Rejected because a process
\* is running: the environment is untouched and the process still runs.
\* Failed because the OS could not spawn: one spawn was attempted,
\* IsRunning() is false afterwards, no waiter is blocked, a Start that
\* follows is not rejected, and the reaper left behind by the failed attempt
\* signals only the completion counter of that attempt, never that of the
\* process a retry has started.
StartOps == {"Start", "ExecuteAsync"}

C15_Rejected ==
    (last'.op \in StartOps /\ last'.ret = "AlreadyRunning")
    => /\ UNCHANGED envVars
       /\ cmds'[mainProcess'].st \in {"running", "zombie"}

C15_SpawnFailed ==
    (last'.op \in StartOps /\ last'.ret = "SpawnFailure")
    => /\ nspawn' = nspawn + 1
       /\ ~IsRunning'
       /\ Blocked' = {}

C15_Retry ==
    (last.op \in StartOps /\ last.ret = "SpawnFailure"
        /\ last'.op \in StartOps)
    => last'.ret # "AlreadyRunning"

C15_FailedReaperKeepsToItself ==
    \A c \in Cmds :
        (cmds[c].st = "nostart" /\ reaper[c].pc = "returned"
            /\ reaper'[c].pc # "returned")
        => nspawn = c

C15_FailedStartIsRetriable ==
    [][/\ C15_Rejected
       /\ C15_SpawnFailed
       /\ C15_Retry
       /\ C15_FailedReaperKeepsToItself]_vars

\* C16: Reload is atomic for the other threads of the Program: what a
\* concurrent Save reads is one whole definition, never the Data of one
\* definition with the Install spec or the Runtime spec of another.
C16_ReloadIsAtomic ==
    last.op = "Save" =>
        \E v \in Versions : /\ last.aux.data = DataOf(v)
                             /\ last.aux.install = v
                             /\ last.aux.run = v

\* C17: Destroy deletes the root directory and nothing else: it does not
\* stop or kill, so the process handle, the input stream, the processes and
\* the completion signal are as before, and on a running Program
\* IsRunning() is still true right after Destroy returns.
C17_DestroyLeavesProcess ==
    [][last'.op = "Destroy"
        => /\ UNCHANGED <<mainProcess, stdInWriter, cmds, wait, reaper>>
           /\ IsRunning => IsRunning'
           /\ last'.ret = "nil" => ~rootDir']_vars

\* a Destroy that removed the directory under a process that still runs
C17_Witness ==
    /\ last.op = "Destroy"
    /\ last.ret = "nil"
    /\ ~rootDir
    /\ IsRunning
    /\ cmds[mainProcess].st = "running"

\* C18: the write-file operation reports its own outcome: it returns nil
\* exactly when the file was written; and an Install whose pipeline ran a
\* write-file operation that could not write returns an error.
C18_WriteFileReportsOutcome ==
    /\ last.op = "WriteFile.Run" => (last.ret = "nil" <=> last.aux.written)
    /\ (/\ last.op = "InstallFiles"
        /\ \E i \in 1..Len(last.aux.ran) : ~last.aux.writes[last.aux.ran[i]])
       => last.ret # "nil"

\* C19: Install writes "Server installed" to the console only when every
\* operation of the pipeline succeeded: an Install that returned the error
\* of a failing operation wrote "Error installing server" and did not write
\* "Server installed"; an Install that returned nil wrote "Server installed".
ConsoleHas(console, line) == \E i \in 1..Len(console) : console[i] = line

C19_InstalledOnlyOnSuccess ==
    (last.op = "Install" /\ PipelineStarted(last.aux.console)) =>
        IF last.ret = "nil"
        THEN ConsoleHas(last.aux.console, "Server installed")
        ELSE /\ ConsoleHas(last.aux.console, "Error installing server")
             /\ ~ConsoleHas(last.aux.console, "Server installed")

\* C20: when every ExecuteAsync so far started its process (P1, then P2
\* after P1 exited or was killed, ...), the reaper of a spawn signals only
\* the completion counter created for its own spawn, also when the next
\* ExecuteAsync ran before it signalled; no thread waiting for a process is
\* released while that process is running; the completion counter never
\* becomes negative.
AllStarted == \A c \in Cmds : cmds[c].st # "nostart"

C20_ReaperSignalsOwnCounter ==
    \A c \in Cmds :
        (reaper[c].pc = "returned" /\ reaper'[c].pc # "returned")
        => nspawn = c

C20_NoEarlyRelease ==
    \A w \in Waiters :
        (waiter[w].pc = "blocked" /\ waiter'[w].pc = "released")
        => cmds[waiter[w].spawn].st # "running"

C20_EarlierReaperLeavesSignalAlone ==
    [][AllStarted => /\ C20_ReaperSignalsOwnCounter
                     /\ C20_NoEarlyRelease
                     /\ wait' >= 0
                     /\ crashed' # "negwg"]_vars

\* C21: the callback of a timer kills only the process its
\* WaitForMainProcessFor call was waiting for: the step in which the
\* callback's Kill signals and releases a process changes no process but
\* that one, also after the call has returned and a later process was
\* spawned.
C21_TimerKillsOwnProcess ==
    [][\A w \in Waiters :
         (timer[w].pc = "kill" /\ timer'[w].pc # "kill")
         => \A c \in Cmds : cmds'[c] # cmds[c] => c = timer[w].spawn]_vars

\* C22: a Kill that has passed its IsRunning() check finds the process
\* handle still set when it uses it: when the Kill of a timer callback
\* comes to signal the process, no other thread has set the handle to nil
\* since the check.
C22_KillSeesHandle ==
    [][\A w \in Waiters :
         (timer[w].pc = "kill" /\ timer'[w].pc # "kill")
         => mainProcess # Nil]_vars

\* C23: a WaitForMainProcess(For) call made while the Environment is not
\* running returns at once with no error, blocks no thread and arms no
\* timer; and a call made while a process is running returns once that
\* process has exited, as long as the daemon itself is alive.
C23_IdleWaitReturnsAtOnce ==
    /\ \A w \in Waiters :
          (\/ waiter[w].pc = "idle" /\ waiter'[w].pc # "idle"
           \/ timer[w].pc = "none" /\ timer'[w].pc # "none") => IsRunning
    /\ (~IsRunning /\ Waiting = {} /\ last'.op = "WaitForMainProcessFor")
         => last'.ret = "nil" /\ UNCHANGED envVars

C23_WaitNeverDeadlocks ==
    /\ [][C23_IdleWaitReturnsAtOnce]_vars
    /\ \A w \in Waiters :
          (waiter[w].pc = "blocked" /\ cmds[waiter[w].spawn].st # "running")
            ~> (waiter[w].pc = "returned" \/ crashed # "no")

====
